---- MODULE Spec2Model ----
(***************************************************************************)
(* Process and resource manager of project1.py: the process table (PCB),   *)
(* the resource table (RCB), the three-level ready list (RL) and the       *)
(* commands in / to / cr / de / rq / rl of the command shell.              *)
(***************************************************************************)
EXTENDS Integers, Sequences, FiniteSets, TLC

\* ---------------------------------------------------------------- bounds
\* number of PCB slots of the model (the program allocates 16)
NumPCB == 5
\* commands issued since the last "in" command
MaxCmds == 7
\* the same, when the commands are all about one resource
MaxOneCmds == 12

\* ------------------------------------------------------ program constants
NumRCB == 4
NumRL == 3
\* the largest inventory of a resource
MaxInventory == 3

Pids == 0..(NumPCB - 1)
Resources == 0..(NumRCB - 1)
Priorities == 0..(NumRL - 1)

\* arguments of the "cr" and "de" commands the shell reads: every valid value
\* and one invalid value each side
PrioInputs == -1..NumRL
PidInputs == -1..NumPCB

\* arguments of the "rq" and "rl" commands the shell reads: every pair that can
\* pass the error checks in some state, and one pair for each check that
\* refuses a pair in every state
UnitPairs ==
    (Resources \X (1..MaxInventory))
       \cup {<<-1, 1>>, <<NumRCB, 1>>, <<0, -1>>, <<0, 0>>, <<NumRCB - 1, MaxInventory + 1>>}

VARIABLES PCB, RCB, RL, raised, granted, freed, old, pc, cmd, ret, ncmds

vars == <<PCB, RCB, RL, raised, granted, freed, old, pc, cmd, ret, ncmds>>

\* ------------------------------------------------------------ data blocks
\* ProcessControlBlock(priority, state, parent): resources is the dictionary
\* in insertion order, a sequence of <<resource type, units held>>
NewPCB(priority, state, parent) ==
    [priority |-> priority, state |-> state, parent |-> parent,
     children |-> {}, resources |-> <<>>]

\* ResourceControlBlock(inventory): waitlist holds <<pid, units requested>>
NewRCB(inventory) ==
    [inventory |-> inventory, state |-> inventory, waitlist |-> <<>>]

\* a Python list index into PCB / RL: negative indices count from the end
Idx(i) == IF i < 0 THEN i + NumPCB ELSE i
LIdx(i) == IF i < 0 THEN i + NumRL ELSE i

Min(S) == CHOOSE x \in S : \A y \in S : x <= y

\* s without its element at position i
RemoveAt(s, i) == SubSeq(s, 1, i - 1) \o SubSeq(s, i + 1, Len(s))

\* deque.remove(x): removes the first occurrence
HasElem(s, x) == \E i \in 1..Len(s) : s[i] = x
RemoveFirst(s, x) ==
    IF HasElem(s, x) THEN RemoveAt(s, Min({i \in 1..Len(s) : s[i] = x})) ELSE s

\* resource_index in resources
HasKey(res, r) == \E i \in 1..Len(res) : res[i][1] = r

\* resources[resource_index] when the key is there, the 0 the callers start from otherwise
UnitsHeld(res, r) ==
    IF HasKey(res, r) THEN res[CHOOSE i \in 1..Len(res) : res[i][1] = r][2] ELSE 0

\* resources[resource_type] += amt_instances on a defaultdict(int)
add_resources(res, r, n) ==
    IF HasKey(res, r)
    THEN [i \in 1..Len(res) |-> IF res[i][1] = r THEN <<r, res[i][2] + n>> ELSE res[i]]
    ELSE Append(res, <<r, n>>)

\* (mutant) rem_resources that leaves the dictionary as it is
rem_resources_kept(res, r, n) == res

\* resources[resource_type] -= amt_instances
rem_resources(res, r, n) == add_resources(res, r, 0 - n)

\* (mutant) get_front_waiting that takes the tuple at the back of the line
get_back_waiting(rcb) ==
    IF Len(rcb.waitlist) # 0 THEN rcb.waitlist[Len(rcb.waitlist)] ELSE <<-1, -1>>

\* get_front_waiting
get_front_waiting(rcb) ==
    IF Len(rcb.waitlist) # 0 THEN rcb.waitlist[1] ELSE <<-1, -1>>

\* (mutant) remove_front_waiting that pops nothing
remove_front_waiting_kept(rcb) == rcb

\* remove_front_waiting
remove_front_waiting(rcb) ==
    IF Len(rcb.waitlist) # 0 THEN [rcb EXCEPT !.waitlist = Tail(@)] ELSE rcb

\* try_and_remove_from_waiting: the first tuple of pid leaves the waitlist
InWaitlist(rcb, pid) == \E i \in 1..Len(rcb.waitlist) : rcb.waitlist[i][1] = pid
try_and_remove_from_waiting(rcb, pid) ==
    IF InWaitlist(rcb, pid)
    THEN [rcb EXCEPT !.waitlist =
            RemoveAt(@, Min({i \in 1..Len(@) : @[i][1] = pid}))]
    ELSE rcb

\* ------------------------------------------------------------ the manager
\* a manager state: the three tables, whether a Python exception was raised,
\* and two records of the command being served: the grants made, by request
\* at once or by the waitlist loop, and the PCBs freed by destroy, each as it
\* was when it happened
Mgr(P, R, L, x) ==
    [PCB |-> P, RCB |-> R, RL |-> L, raised |-> x, granted |-> <<>>, freed |-> <<>>]

\* a grant of units of resource r to pid, made with S.RCB[r] as it is in S
Grant(S, kind, r, pid, units) ==
    [kind |-> kind, resource |-> r, pid |-> pid, units |-> units,
     waitlist |-> S.RCB[r].waitlist, state |-> S.RCB[r].state]

\* OSManager.init
InitPCB == [i \in Pids |-> IF i = 0 THEN NewPCB(0, 1, -1) ELSE NewPCB(-1, -1, -1)]
InitRCB == [i \in Resources |->
              IF i <= 1 THEN NewRCB(1) ELSE IF i = 2 THEN NewRCB(2) ELSE NewRCB(3)]
InitRL == [i \in Priorities |-> IF i = 0 THEN <<0>> ELSE <<>>]
\* (mutant) init that keeps the resource table it finds
init_rcb_kept == Mgr(InitPCB, RCB, InitRL, FALSE)

init == Mgr(InitPCB, InitRCB, InitRL, FALSE)

\* (mutant) the scan of the ready lists from priority 0 up
RunningLevel_lowest(L) ==
    IF \E i \in Priorities : Len(L[i]) # 0
    THEN CHOOSE i \in Priorities : Len(L[i]) # 0 /\ \A j \in Priorities : j < i => Len(L[j]) = 0
    ELSE -1

\* the loop "for i in range(len(self.RL)-1, -1, -1)": head of the first
\* non-empty ready list from priority 2 down, -1 when every list is empty
RunningLevel(L) ==
    IF \E i \in Priorities : Len(L[i]) # 0
    THEN CHOOSE i \in Priorities : Len(L[i]) # 0 /\ \A j \in Priorities : j > i => Len(L[j]) = 0
    ELSE -1
scheduler(L) == IF RunningLevel(L) = -1 THEN -1 ELSE L[RunningLevel(L)][1]

\* (mutant) timeout that puts the head behind the second process of its list
timeout_swap(S) ==
    IF RunningLevel(S.RL) = -1 THEN S
    ELSE LET i == RunningLevel(S.RL) IN
         IF Len(S.RL[i]) < 2 THEN S
         ELSE [S EXCEPT !.RL[i] = <<@[2], @[1]>> \o SubSeq(@, 3, Len(@))]

\* (mutant) timeout that pops the head and does not append it
timeout_popleft_only(S) ==
    IF RunningLevel(S.RL) = -1 THEN S
    ELSE LET i == RunningLevel(S.RL) IN [S EXCEPT !.RL[i] = Tail(@)]

\* OSManager.timeout
timeout(S) ==
    IF RunningLevel(S.RL) = -1 THEN S
    ELSE LET i == RunningLevel(S.RL) IN
         [S EXCEPT !.RL[i] = Tail(Append(@, @[1]))]

\* OSManager.create: the result carries ret, 0 for None and -1 for the error
WithRet(S, r) ==
    [PCB |-> S.PCB, RCB |-> S.RCB, RL |-> S.RL, raised |-> S.raised,
     granted |-> S.granted, freed |-> S.freed, ret |-> r]

\* (mutant) create that inserts the new process at the head of its ready list
create_at_front(S, priority_given) ==
    IF priority_given < 0 \/ priority_given >= 3 THEN WithRet(S, -1)
    ELSE LET running == scheduler(S.RL)
             free == {i \in Pids : S.PCB[i].priority < 0}
         IN  IF free = {} THEN WithRet(S, -1)
             ELSE LET i == Min(free)
                      P1 == [S.PCB EXCEPT ![i] = NewPCB(priority_given, 1, running)]
                      P2 == [P1 EXCEPT ![Idx(running)].children = @ \cup {i}]
                  IN  WithRet([S EXCEPT !.PCB = P2,
                                        !.RL[priority_given] = <<i>> \o @], 0)

\* (mutant) create that allocates the highest free PCB index
create_highest_free(S, priority_given) ==
    IF priority_given < 0 \/ priority_given >= 3 THEN WithRet(S, -1)
    ELSE LET running == scheduler(S.RL)
             free == {i \in Pids : S.PCB[i].priority < 0}
         IN  IF free = {} THEN WithRet(S, -1)
             ELSE LET i == CHOOSE x \in free : \A y \in free : y <= x
                      P1 == [S.PCB EXCEPT ![i] = NewPCB(priority_given, 1, running)]
                      P2 == [P1 EXCEPT ![Idx(running)].children = @ \cup {i}]
                  IN  WithRet([S EXCEPT !.PCB = P2,
                                        !.RL[priority_given] = Append(@, i)], 0)

create(S, priority_given) ==
    IF priority_given < 0 \/ priority_given >= 3 THEN WithRet(S, -1)
    ELSE LET running == scheduler(S.RL)
             free == {i \in Pids : S.PCB[i].priority < 0}
         IN  IF free = {} THEN WithRet(S, -1)
             ELSE LET i == Min(free)
                      P1 == [S.PCB EXCEPT ![i] = NewPCB(priority_given, 1, running)]
                      P2 == [P1 EXCEPT ![Idx(running)].children = @ \cup {i}]
                  IN  WithRet([S EXCEPT !.PCB = P2,
                                        !.RL[priority_given] = Append(@, i)], 0)

\* (mutant) a waitlist loop that serves the first request that fits, wherever
\* it stands in the line
RECURSIVE grant_first_fit(_, _)
grant_first_fit(S, r) ==
    LET wl == S.RCB[r].waitlist
        fits == {i \in 1..Len(wl) : wl[i][2] <= S.RCB[r].state}
    IN  IF fits = {} \/ S.RCB[r].state <= 0 THEN S
        ELSE LET i == Min(fits)
                 p == Idx(wl[i][1])
                 lvl == LIdx(S.PCB[p].priority)
             IN  grant_first_fit(
                     [S EXCEPT !.PCB[p].resources = add_resources(@, r, wl[i][2]),
                               !.PCB[p].state = 1,
                               !.RCB[r].state = @ - wl[i][2],
                               !.RCB[r].waitlist = RemoveAt(@, i),
                               !.RL[lvl] = Append(@, wl[i][1]),
                               !.granted = Append(@, Grant(S, "waitlist", r,
                                                           wl[i][1], wl[i][2]))], r)

\* (mutant) a waitlist loop that grants the front request and leaves it in
\* the waitlist
RECURSIVE grant_without_pop(_, _)
grant_without_pop(S, r) ==
    LET front_in_line == get_front_waiting(S.RCB[r]) IN
    IF front_in_line # <<-1, -1>> /\ S.RCB[r].state > 0
    THEN IF S.RCB[r].state >= front_in_line[2]
         THEN LET p == Idx(front_in_line[1])
                  P1 == [S.PCB EXCEPT ![p].resources = add_resources(@, r, front_in_line[2]),
                                      ![p].state = 1]
                  R1 == [S.RCB EXCEPT ![r].state = @ - front_in_line[2]]
                  lvl == LIdx(P1[p].priority)
                  event == Grant(S, "waitlist", r, front_in_line[1], front_in_line[2])
              IN  grant_without_pop(
                      [S EXCEPT !.PCB = P1, !.RCB = R1,
                                !.RL[lvl] = Append(@, front_in_line[1]),
                                !.granted = Append(@, event)], r)
         ELSE S
    ELSE S

\* OSManager._grant_possible_waiting_requests
RECURSIVE grant_possible_waiting_requests(_, _)
grant_possible_waiting_requests(S, r) ==
    LET front_in_line == get_front_waiting(S.RCB[r]) IN
    IF front_in_line # <<-1, -1>> /\ S.RCB[r].state > 0
    THEN IF S.RCB[r].state >= front_in_line[2]
         THEN LET p == Idx(front_in_line[1])
                  P1 == [S.PCB EXCEPT ![p].resources = add_resources(@, r, front_in_line[2]),
                                      ![p].state = 1]
                  R1 == [S.RCB EXCEPT ![r] =
                            remove_front_waiting([@ EXCEPT !.state = @ - front_in_line[2]])]
                  lvl == LIdx(P1[p].priority)
                  event == Grant(S, "waitlist", r, front_in_line[1], front_in_line[2])
              IN  grant_possible_waiting_requests(
                      [S EXCEPT !.PCB = P1, !.RCB = R1,
                                !.RL[lvl] = Append(@, front_in_line[1]),
                                !.granted = Append(@, event)], r)
         ELSE S
    ELSE S

\* the process the operations take as currently running, and what it holds
currently_running(S) == scheduler(S.RL)
num_units_already_held(S, resource_index) ==
    IF currently_running(S) = -1 THEN 0
    ELSE UnitsHeld(S.PCB[Idx(currently_running(S))].resources, resource_index)

\* (mutant) the error checks of request without check 4, the one of process 0
request_error_root_allowed(S, resource_index, num_units) ==
    IF resource_index \notin {0, 1, 2, 3} THEN TRUE
    ELSE IF num_units < 0 THEN TRUE
    ELSE IF num_units + num_units_already_held(S, resource_index)
               > S.RCB[resource_index].inventory THEN TRUE
    ELSE num_units = 0

\* (mutant) the error checks of request with check 3 off by one
request_error_strict(S, resource_index, num_units) ==
    IF resource_index \notin {0, 1, 2, 3} THEN TRUE
    ELSE IF num_units < 0 THEN TRUE
    ELSE IF num_units + num_units_already_held(S, resource_index)
               >= S.RCB[resource_index].inventory THEN TRUE
    ELSE IF currently_running(S) = 0 THEN TRUE
    ELSE num_units = 0

\* (mutant) the error checks of request with check 3 blind to the units held
request_error_no_held(S, resource_index, num_units) ==
    IF resource_index \notin {0, 1, 2, 3} THEN TRUE
    ELSE IF num_units < 0 THEN TRUE
    ELSE IF num_units > S.RCB[resource_index].inventory THEN TRUE
    ELSE IF currently_running(S) = 0 THEN TRUE
    ELSE num_units = 0

\* OSManager.request, lines 323-352: the error checks
request_error(S, resource_index, num_units) ==
    IF resource_index \notin {0, 1, 2, 3} THEN TRUE
    ELSE IF num_units < 0 THEN TRUE
    ELSE IF num_units + num_units_already_held(S, resource_index)
               > S.RCB[resource_index].inventory THEN TRUE
    ELSE IF currently_running(S) = 0 THEN TRUE
    ELSE num_units = 0

\* (mutant) request that puts a blocked process at the front of the waitlist
request_block_at_front(S, resource_index, num_units) ==
    LET cr == Idx(currently_running(S)) IN
    IF num_units <= S.RCB[resource_index].state
    THEN [S EXCEPT !.RCB[resource_index].state = @ - num_units,
                   !.PCB[cr].resources = add_resources(@, resource_index, num_units),
                   !.granted = Append(@, Grant(S, "request", resource_index,
                                               currently_running(S), num_units))]
    ELSE LET lvl == LIdx(S.PCB[cr].priority) IN
         IF HasElem(S.RL[lvl], currently_running(S))
         THEN [S EXCEPT !.PCB[cr].state = 0,
                        !.RL[lvl] = RemoveFirst(@, currently_running(S)),
                        !.RCB[resource_index].waitlist =
                            <<<<currently_running(S), num_units>>>> \o @]
         ELSE [S EXCEPT !.PCB[cr].state = 0, !.raised = TRUE]

\* (mutant) request that sends a process it has granted units to the tail of
\* its ready list
request_grant_yields(S, resource_index, num_units) ==
    LET cr == Idx(currently_running(S)) IN
    IF num_units <= S.RCB[resource_index].state
    THEN timeout([S EXCEPT !.RCB[resource_index].state = @ - num_units,
                           !.PCB[cr].resources = add_resources(@, resource_index, num_units),
                           !.granted = Append(@, Grant(S, "request", resource_index,
                                                       currently_running(S), num_units))])
    ELSE LET lvl == LIdx(S.PCB[cr].priority) IN
         IF HasElem(S.RL[lvl], currently_running(S))
         THEN [S EXCEPT !.PCB[cr].state = 0,
                        !.RL[lvl] = RemoveFirst(@, currently_running(S)),
                        !.RCB[resource_index].waitlist =
                            Append(@, <<currently_running(S), num_units>>)]
         ELSE [S EXCEPT !.PCB[cr].state = 0, !.raised = TRUE]

\* OSManager.request, lines 354-366: grant the units or block the process
request_grant_or_block(S, resource_index, num_units) ==
    LET cr == Idx(currently_running(S)) IN
    IF num_units <= S.RCB[resource_index].state
    THEN [S EXCEPT !.RCB[resource_index].state = @ - num_units,
                   !.PCB[cr].resources = add_resources(@, resource_index, num_units),
                   !.granted = Append(@, Grant(S, "request", resource_index,
                                               currently_running(S), num_units))]
    ELSE LET lvl == LIdx(S.PCB[cr].priority) IN
         IF HasElem(S.RL[lvl], currently_running(S))
         THEN [S EXCEPT !.PCB[cr].state = 0,
                        !.RL[lvl] = RemoveFirst(@, currently_running(S)),
                        !.RCB[resource_index].waitlist =
                            Append(@, <<currently_running(S), num_units>>)]
         ELSE [S EXCEPT !.PCB[cr].state = 0, !.raised = TRUE]

\* (mutant) request with checks 4 and 5 placed after the grant or the block
request_checks_late(S, resource_index, num_units) ==
    IF resource_index \notin {0, 1, 2, 3} THEN WithRet(S, -1)
    ELSE IF num_units < 0 THEN WithRet(S, -1)
    ELSE IF num_units + num_units_already_held(S, resource_index)
               > S.RCB[resource_index].inventory THEN WithRet(S, -1)
    ELSE IF currently_running(S) = 0 \/ num_units = 0
    THEN WithRet(request_grant_or_block(S, resource_index, num_units), -1)
    ELSE WithRet(request_grant_or_block(S, resource_index, num_units), 0)

\* OSManager.request
request(S, resource_index, num_units) ==
    IF request_error(S, resource_index, num_units) THEN WithRet(S, -1)
    ELSE WithRet(request_grant_or_block(S, resource_index, num_units), 0)

\* OSManager.release, lines 409-434: the error checks
release_error(S, resource_index, num_units) ==
    IF resource_index \notin {0, 1, 2, 3} THEN TRUE
    ELSE IF num_units < 0 THEN TRUE
    ELSE IF num_units > num_units_already_held(S, resource_index) THEN TRUE
    ELSE num_units = 0

\* (mutant) release that does not serve the waitlist
release_units_noscan(S, resource_index, num_units) ==
    LET cr == Idx(currently_running(S)) IN
    [S EXCEPT !.PCB[cr].resources = rem_resources(@, resource_index, num_units),
              !.RCB[resource_index].state = @ + num_units]

\* OSManager.release, lines 436-441
release_units(S, resource_index, num_units) ==
    LET cr == Idx(currently_running(S)) IN
    grant_possible_waiting_requests(
        [S EXCEPT !.PCB[cr].resources = rem_resources(@, resource_index, num_units),
                  !.RCB[resource_index].state = @ + num_units],
        resource_index)

\* OSManager.release
release(S, resource_index, num_units) ==
    IF release_error(S, resource_index, num_units) THEN WithRet(S, -1)
    ELSE WithRet(release_units(S, resource_index, num_units), 0)

\* (mutant) destroy that takes a Ready process off its ready list and leaves
\* a blocked one in its waitlist
leave_lists_ready_only(S, child_id) ==
    IF S.PCB[child_id].state = 1
    THEN LET lvl == LIdx(S.PCB[child_id].priority) IN
         IF HasElem(S.RL[lvl], child_id)
         THEN [S EXCEPT !.RL[lvl] = RemoveFirst(@, child_id)]
         ELSE [S EXCEPT !.raised = TRUE]
    ELSE S

\* destroy, lines 474-483: the process leaves the ready list or the waitlist
\* of the first resource that has it
leave_lists(S, child_id) ==
    IF S.PCB[child_id].state = 1
    THEN LET lvl == LIdx(S.PCB[child_id].priority) IN
         IF HasElem(S.RL[lvl], child_id)
         THEN [S EXCEPT !.RL[lvl] = RemoveFirst(@, child_id)]
         ELSE [S EXCEPT !.raised = TRUE]
    ELSE LET hit == {i \in Resources : InWaitlist(S.RCB[i], child_id)} IN
         IF hit = {} THEN S
         ELSE [S EXCEPT !.RCB[Min(hit)] = try_and_remove_from_waiting(@, child_id)]

\* destroy, lines 484-491: every entry of the dictionary, in its order, goes
\* back to its resource and the waitlist of that resource is served
RECURSIVE release_all(_, _)
release_all(S, items) ==
    IF items = <<>> \/ S.raised THEN S
    ELSE LET resource_index == Head(items)[1]
             num_units == Head(items)[2]
         IN  release_all(
                 grant_possible_waiting_requests(
                     [S EXCEPT !.RCB[resource_index].state = @ + num_units],
                     resource_index),
                 Tail(items))

\* (mutant) destroy that leaves the process in the children set of its parent
destroy_one_child_kept(S, child_id) ==
    IF S.raised THEN S
    ELSE LET parent == Idx(S.PCB[child_id].parent) IN
         IF child_id \notin S.PCB[parent].children
         THEN [S EXCEPT !.raised = TRUE]
         ELSE LET S1 == leave_lists(S, child_id)
              IN  IF S1.raised THEN S1
                  ELSE LET S2 == release_all(S1, S1.PCB[child_id].resources) IN
                       IF S2.raised THEN S2
                       ELSE [S2 EXCEPT !.PCB[child_id] = NewPCB(-1, -1, -1),
                                       !.freed = Append(@, [pid |-> child_id,
                                                            pcb |-> S.PCB[child_id]])]

\* destroy, lines 472-493, of one process whose children are gone
destroy_one(S, child_id) ==
    IF S.raised THEN S
    ELSE LET parent == Idx(S.PCB[child_id].parent) IN
         IF child_id \notin S.PCB[parent].children
         THEN [S EXCEPT !.raised = TRUE]
         ELSE LET S1 == leave_lists([S EXCEPT !.PCB[parent].children = @ \ {child_id}],
                                    child_id)
              IN  IF S1.raised THEN S1
                  ELSE LET S2 == release_all(S1, S1.PCB[child_id].resources) IN
                       IF S2.raised THEN S2
                       ELSE [S2 EXCEPT !.PCB[child_id] = NewPCB(-1, -1, -1),
                                       !.freed = Append(@, [pid |-> child_id,
                                                            pcb |-> S.PCB[child_id]])]

\* destroy(child_id, False): the set of states the recursion can end in, one
\* for every order in which the copied children sets can be iterated
RECURSIVE destroy_rec(_, _), destroy_children(_, _)
destroy_children(S, kids) ==
    IF kids = {} \/ S.raised THEN {S}
    ELSE UNION {UNION {destroy_children(S2, kids \ {k}) : S2 \in destroy_rec(S, k)} :
                k \in kids}

destroy_rec(S, child_id) ==
    {destroy_one(S1, child_id) : S1 \in destroy_children(S, S.PCB[child_id].children)}

\* (mutant) the error checks of destroy that also let a child of a child through
destroy_error_grandchild(S, child_id) ==
    IF /\ child_id # currently_running(S)
       /\ child_id \notin S.PCB[Idx(currently_running(S))].children
       /\ ~(child_id \in Pids /\ S.PCB[child_id].parent
                                   \in S.PCB[Idx(currently_running(S))].children)
    THEN TRUE
    ELSE child_id = 0

\* OSManager.destroy(child_id): the initial call with its error checks
destroy_error(S, child_id) ==
    IF child_id # currently_running(S)
       /\ child_id \notin S.PCB[Idx(currently_running(S))].children
    THEN TRUE
    ELSE child_id = 0

destroy(S, child_id) ==
    IF destroy_error(S, child_id) THEN {WithRet(S, -1)}
    ELSE {WithRet(S1, 0) : S1 \in destroy_rec(S, child_id)}

\* ------------------------------------------------------------ the shell
\* cmd is the command being served, its keyword and its integer arguments,
\* and NoCmd between commands; old holds the tables as they were when the
\* command was read
Cmd(op, a, b) == [op |-> op, a |-> a, b |-> b]
NoCmd == Cmd("none", 0, 0)
NoOld == [PCB |-> <<>>, RCB |-> <<>>, RL |-> <<>>]

Cur == Mgr(PCB, RCB, RL, raised)

\* the operation leaves the manager as R and returns R.ret to the shell
Returns(R, c) ==
    /\ PCB' = R.PCB
    /\ RCB' = R.RCB
    /\ RL' = R.RL
    /\ raised' = R.raised
    /\ granted' = R.granted
    /\ freed' = R.freed
    /\ ret' = R.ret
    /\ cmd' = c
    /\ old' = [PCB |-> PCB, RCB |-> RCB, RL |-> RL]
    /\ pc' = "returned"

Ready == pc = "idle" /\ ~raised

Init ==
    /\ PCB = InitPCB
    /\ RCB = InitRCB
    /\ RL = InitRL
    /\ raised = FALSE
    /\ granted = <<>>
    /\ freed = <<>>
    /\ old = NoOld
    /\ pc = "idle"
    /\ cmd = NoCmd
    /\ ret = 0
    /\ ncmds = 0

\* command "in"
DoInit ==
    /\ Ready
    /\ Returns(WithRet(init, 0), Cmd("in", 0, 0))
    /\ ncmds' = 0

\* command "to"
DoTimeout ==
    /\ Ready /\ ncmds < MaxCmds
    /\ Returns(WithRet(timeout(Cur), 0), Cmd("to", 0, 0))
    /\ ncmds' = ncmds + 1

\* command "cr <priority>"
DoCreate ==
    /\ Ready /\ ncmds < MaxCmds
    /\ \E p \in PrioInputs : Returns(create(Cur, p), Cmd("cr", p, 0))
    /\ ncmds' = ncmds + 1

\* command "de <pid>"
DoDestroy ==
    /\ Ready /\ ncmds < MaxCmds
    /\ \E j \in PidInputs : \E R \in destroy(Cur, j) : Returns(R, Cmd("de", j, 0))
    /\ ncmds' = ncmds + 1

\* command "rq <resource> <units>"
DoRequest ==
    /\ Ready /\ ncmds < MaxCmds
    /\ \E a \in UnitPairs : Returns(request(Cur, a[1], a[2]), Cmd("rq", a[1], a[2]))
    /\ ncmds' = ncmds + 1

\* command "rl <resource> <units>"
DoRelease ==
    /\ Ready /\ ncmds < MaxCmds
    /\ \E a \in UnitPairs : Returns(release(Cur, a[1], a[2]), Cmd("rl", a[1], a[2]))
    /\ ncmds' = ncmds + 1

\* the shell prints the running process or -1 and reads the next command
Report ==
    /\ pc = "returned"
    /\ pc' = "idle"
    /\ cmd' = NoCmd
    /\ ret' = 0
    /\ granted' = <<>>
    /\ freed' = <<>>
    /\ old' = NoOld
    /\ UNCHANGED <<PCB, RCB, RL, raised, ncmds>>

Next ==
    \/ DoInit
    \/ DoTimeout
    \/ DoCreate
    \/ DoDestroy
    \/ DoRequest
    \/ DoRelease
    \/ Report

Spec == Init /\ [][Next]_vars

\* ------------------------------------------- the shell, one resource
\* the same shell fed longer runs of commands, all of them about the resource
\* of the largest inventory, the priorities above that of process 0 and the
\* process ids other than 0; a request or release is of one or two units,
\* what a process can ask for while another process holds a unit
OnePrios == Priorities \ {0}
OnePids == Pids \ {0}
OnePairs == {NumRCB - 1} \X (1..(MaxInventory - 1))

OneTimeout ==
    /\ Ready /\ ncmds < MaxOneCmds
    /\ Returns(WithRet(timeout(Cur), 0), Cmd("to", 0, 0))
    /\ ncmds' = ncmds + 1

OneCreate ==
    /\ Ready /\ ncmds < MaxOneCmds
    /\ \E p \in OnePrios : Returns(create(Cur, p), Cmd("cr", p, 0))
    /\ ncmds' = ncmds + 1

OneDestroy ==
    /\ Ready /\ ncmds < MaxOneCmds
    /\ \E j \in OnePids : \E R \in destroy(Cur, j) : Returns(R, Cmd("de", j, 0))
    /\ ncmds' = ncmds + 1

OneRequest ==
    /\ Ready /\ ncmds < MaxOneCmds
    /\ \E a \in OnePairs : Returns(request(Cur, a[1], a[2]), Cmd("rq", a[1], a[2]))
    /\ ncmds' = ncmds + 1

OneRelease ==
    /\ Ready /\ ncmds < MaxOneCmds
    /\ \E a \in OnePairs : Returns(release(Cur, a[1], a[2]), Cmd("rl", a[1], a[2]))
    /\ ncmds' = ncmds + 1

NextOne ==
    \/ DoInit
    \/ OneTimeout
    \/ OneCreate
    \/ OneDestroy
    \/ OneRequest
    \/ OneRelease
    \/ Report

SpecOne == Init /\ [][NextOne]_vars

\* ------------------------------------------------------------ vocabulary
Occupied(p) == PCB[p].priority # -1
Held(p, r) == UnitsHeld(PCB[p].resources, r)
Waitlist(r) == RCB[r].waitlist
Waiting(r, p) == InWaitlist(RCB[r], p)

\* the same, when the command being served was read
WasOccupied(p) == old.PCB[p].priority # -1
HeldBefore(p, r) == UnitsHeld(old.PCB[p].resources, r)
WasRunning == scheduler(old.RL)

\* units of r that the processes of the set Q, among the slots 0..n, hold in
\* the process table P
RECURSIVE UnitsOver(_, _, _, _)
UnitsOver(P, r, Q, n) ==
    IF n < 0 THEN 0
    ELSE (IF n \in Q THEN UnitsHeld(P[n].resources, r) ELSE 0) + UnitsOver(P, r, Q, n - 1)
TotalHeld(r) == UnitsOver(PCB, r, Pids, NumPCB - 1)

\* t and its descendants through the children sets of the process table P
RECURSIVE Subtree(_, _)
Subtree(P, t) == {t} \cup UNION {Subtree(P, c) : c \in P[t].children}

\* the process ids of a wait queue, in its order
QueuePids(wl) == [i \in 1..Len(wl) |-> wl[i][1]]
\* units asked for by the first k entries of a wait queue
RECURSIVE PrefixUnits(_, _)
PrefixUnits(wl, k) == IF k = 0 THEN 0 ELSE wl[k][2] + PrefixUnits(wl, k - 1)

\* number of positions of the sequence s that hold x
Count(s, x) == Cardinality({i \in 1..Len(s) : s[i] = x})
\* entries of process p over all the wait queues
WaitEntries(p) == {<<r, i>> \in Resources \X (1..NumPCB) :
                      i <= Len(Waitlist(r)) /\ Waitlist(r)[i][1] = p}

\* the command op has just been served; it has succeeded; it has failed
Served(op) == pc = "returned" /\ cmd.op = op
Done(op) == Served(op) /\ ret = 0
Refused(op) == Served(op) /\ ret = -1

\* ------------------------------------------------------------------ C1
\* C1: resource conservation. In every reachable state, for every resource r,
\* 0 <= available(r) <= inventory(r), and available(r) plus the units of r
\* held over all process slots equals inventory(r) (inventories 1, 1, 2, 3).
C1_Conservation ==
    /\ <<RCB[0].inventory, RCB[1].inventory, RCB[2].inventory, RCB[3].inventory>>
           = <<1, 1, 2, 3>>
    /\ \A r \in Resources :
          /\ 0 <= RCB[r].state
          /\ RCB[r].state <= RCB[r].inventory
          /\ RCB[r].state + TotalHeld(r) = RCB[r].inventory

\* a destroy has returned the units of a process while another process still
\* holds units of the same resource
C1_Witness ==
    /\ Done("de")
    /\ \E k \in 1..Len(freed), r \in Resources, p \in Pids :
          UnitsHeld(freed[k].pcb.resources, r) > 0 /\ Held(p, r) > 0

\* ------------------------------------------------------------------ C2
\* C2: ready/blocked exclusivity. In every state between commands each
\* occupied slot is Ready or Blocked; a Ready process is exactly once in the
\* ready list of its priority, in no other ready list and in no wait queue; a
\* Blocked process has exactly one entry over all wait queues and is in no
\* ready list; a free slot is in no ready list and in no wait queue.
C2_Exclusive ==
    \A p \in Pids :
       /\ Occupied(p) => PCB[p].priority \in Priorities /\ PCB[p].state \in {0, 1}
       /\ (Occupied(p) /\ PCB[p].state = 1) =>
             /\ Count(RL[PCB[p].priority], p) = 1
             /\ \A l \in Priorities \ {PCB[p].priority} : Count(RL[l], p) = 0
             /\ WaitEntries(p) = {}
       /\ (Occupied(p) /\ PCB[p].state = 0) =>
             /\ Cardinality(WaitEntries(p)) = 1
             /\ \A l \in Priorities : Count(RL[l], p) = 0
       /\ ~Occupied(p) =>
             /\ \A l \in Priorities : Count(RL[l], p) = 0
             /\ WaitEntries(p) = {}

\* a destroy has freed a slot while one process is blocked and another, which
\* holds units, is Ready
C2_Witness ==
    /\ Done("de")
    /\ \E p \in Pids : Occupied(p) /\ PCB[p].state = 0
    /\ \E p \in Pids, r \in Resources : Occupied(p) /\ PCB[p].state = 1 /\ Held(p, r) > 0
    /\ \E p \in Pids : ~Occupied(p)

\* ------------------------------------------------------------------ C3
\* C3: failure atomicity. Whenever create, destroy, request or release returns
\* -1, the process table, the resource table and the three ready lists are
\* what they were before the call.
C3_FailureAtomic ==
    (pc = "returned" /\ ret = -1 /\ cmd.op \in {"cr", "de", "rq", "rl"})
       => (PCB = old.PCB /\ RCB = old.RCB /\ RL = old.RL /\ ~raised)

\* a request for one unit that is available has been refused while a process
\* is blocked
C3_Witness ==
    /\ Refused("rq")
    /\ cmd.a \in Resources /\ cmd.b = 1 /\ RCB[cmd.a].state >= 1
    /\ \E p \in Pids : Occupied(p) /\ PCB[p].state = 0

\* ------------------------------------------------------------------ C4
\* C4: root protection. In every reachable state process 0 occupies its slot
\* with priority 0 and status Ready, is in the priority-0 ready list, is in no
\* wait queue and holds no unit of any resource.
C4_Root ==
    /\ PCB[0].priority = 0
    /\ PCB[0].state = 1
    /\ HasElem(RL[0], 0)
    /\ \A r \in Resources : ~Waiting(r, 0) /\ Held(0, r) = 0

\* process 0, running, has asked for a unit that is available, or has been
\* named in a destroy, next to a child of its priority that holds units
C4_Witness ==
    /\ pc = "returned" /\ WasRunning = 0
    /\ \E p \in PCB[0].children, r \in Resources : Held(p, r) > 0
    /\ \/ cmd.op = "rq" /\ cmd.a \in Resources /\ cmd.b = 1 /\ old.RCB[cmd.a].state >= 1
       \/ cmd = Cmd("de", 0, 0)

\* ------------------------------------------------------------------ C5
\* C5: FIFO within a wait queue. Whenever the waitlist loop grants a request
\* of resource r, the granted process is at the head of r's wait queue at that
\* moment: no process B is granted while a process A that precedes it in the
\* queue is still waiting there.
C5_FifoGrant ==
    \A k \in 1..Len(granted) :
       LET e == granted[k] IN
       e.kind = "waitlist" =>
          /\ e.waitlist # <<>>
          /\ e.waitlist[1] = <<e.pid, e.units>>
          /\ \A i, j \in 1..Len(e.waitlist) : i < j => e.waitlist[j][1] # e.pid

\* the head of a wait queue of two or more has been granted
C5_Witness ==
    \E k \in 1..Len(granted) :
       granted[k].kind = "waitlist" /\ Len(granted[k].waitlist) >= 2

\* ------------------------------------------------------------------ C6
\* C6 as claimed: while the request at the head of r's wait queue cannot be
\* satisfied by available(r), no units of r are granted to anyone, a fresh
\* request of the running process included.
C6_NoGrantPastBlockedHead ==
    \A k \in 1..Len(granted) :
       LET e == granted[k] IN
       ~(e.waitlist # <<>> /\ e.waitlist[1][2] > e.state)

\* C6 as amended: while the request at the head of r's wait queue cannot be
\* satisfied, no request waiting in that queue is granted; the only grant of
\* units of r made then is to a fresh request of the running process that
\* asks for no more than available(r).
C6_OnlyFreshRequestPassesHead ==
    \A k \in 1..Len(granted) :
       LET e == granted[k] IN
       (e.waitlist # <<>> /\ e.waitlist[1][2] > e.state) =>
          /\ e.kind = "request"
          /\ cmd = Cmd("rq", e.resource, e.units)
          /\ e.pid = WasRunning
          /\ e.units <= e.state
          /\ \A i \in 1..Len(e.waitlist) : e.waitlist[i][1] # e.pid

\* a fresh, smaller request has been granted past a blocked head request
C6_Witness ==
    /\ Done("rq")
    /\ \E k \in 1..Len(granted) :
          LET e == granted[k] IN
          /\ e.kind = "request"
          /\ e.waitlist # <<>> /\ e.waitlist[1][2] > e.state
          /\ e.units < e.waitlist[1][2]

\* ------------------------------------------------------------------ C7
\* create(1) has been served on the tables init() leaves
Scenario1 ==
    /\ pc = "returned" /\ cmd = Cmd("cr", 1, 0)
    /\ old = [PCB |-> InitPCB, RCB |-> InitRCB, RL |-> InitRL]

\* C7 as claimed (scenario 1): after init() and create(1) the new process has
\* id 1, is Ready at priority 1 with parent 0, and process 0 is running.
C7_Scenario1_Root ==
    Scenario1 =>
       /\ ret = 0
       /\ PCB[1] = NewPCB(1, 1, 0)
       /\ scheduler(RL) = 0

\* C7 as amended: after init() and create(1) the new process has id 1, is
\* Ready at priority 1 with parent 0, and the running process is process 1,
\* the head of the highest-priority non-empty ready list.
C7_Scenario1 ==
    Scenario1 =>
       /\ ret = 0
       /\ PCB[1] = NewPCB(1, 1, 0)
       /\ \A i \in Pids \ {0, 1} : ~Occupied(i)
       /\ PCB[0].children = {1}
       /\ scheduler(RL) = 1

\* the state after init() and create(1)
C7_Witness == Scenario1 /\ ret = 0 /\ Occupied(1)

\* ------------------------------------------------------------------ C8
\* C8: destroy effect. After a successful destroy(t), t and every descendant
\* of t are free slots (priority -1, no children, empty held map), are in no
\* ready list, no wait queue and no children set, every unit they held is
\* back in the resources, and no process outside the subtree of t is freed.
C8_DestroyEffect ==
    Done("de") =>
       LET D == Subtree(old.PCB, cmd.a) IN
       /\ ~raised
       /\ \A d \in D :
             /\ PCB[d] = NewPCB(-1, -1, -1)
             /\ \A l \in Priorities : ~HasElem(RL[l], d)
             /\ \A r \in Resources : ~Waiting(r, d)
             /\ \A p \in Pids : d \notin PCB[p].children
       /\ \A r \in Resources :
             RCB[r].state + UnitsOver(PCB, r, Pids \ D, NumPCB - 1)
                = old.RCB[r].state + UnitsOver(old.PCB, r, Pids, NumPCB - 1)
       /\ \A p \in Pids \ D : WasOccupied(p) => PCB[p].priority = old.PCB[p].priority

\* a destroy has freed a process that held units and a blocked descendant
C8_Witness ==
    /\ Done("de")
    /\ Len(freed) >= 2
    /\ \E k \in 1..Len(freed) : freed[k].pcb.state = 0
    /\ \E k \in 1..Len(freed) : \E r \in Resources :
          UnitsHeld(freed[k].pcb.resources, r) > 0

\* ------------------------------------------------------------------ C9
\* C9: release and wait-grant scan. A successful release(r, u) lowers the
\* running process's count of r by u, raises available(r) by u and then grants
\* the longest prefix of r's wait queue whose requests fit one after the other:
\* each granted process gets its requested units, becomes Ready, leaves the
\* queue and is appended to its priority's ready list in grant order; the
\* scan stops at the first head that does not fit and the rest stays queued.
C9_ReleaseScan ==
    Done("rl") =>
       LET r == cmd.a
           u == cmd.b
           wl == old.RCB[r].waitlist
           k == Len(wl) - Len(Waitlist(r))
           served == SubSeq(QueuePids(wl), 1, k)
       IN  /\ ~raised
           /\ k \in 0..Len(wl)
           /\ PrefixUnits(wl, k) <= old.RCB[r].state + u
           /\ k < Len(wl) => PrefixUnits(wl, k + 1) > old.RCB[r].state + u
           /\ Waitlist(r) = SubSeq(wl, k + 1, Len(wl))
           /\ RCB[r].state = old.RCB[r].state + u - PrefixUnits(wl, k)
           /\ Held(WasRunning, r) = HeldBefore(WasRunning, r) - u
           /\ \A i \in 1..k :
                 /\ PCB[wl[i][1]].state = 1
                 /\ Held(wl[i][1], r) = HeldBefore(wl[i][1], r) + wl[i][2]
           /\ \A l \in Priorities :
                 RL[l] = old.RL[l] \o SelectSeq(served, LAMBDA p : old.PCB[p].priority = l)
           /\ \A i \in (k + 1)..Len(wl) : PCB[wl[i][1]] = old.PCB[wl[i][1]]

\* a release has granted the head of a wait queue and stopped at the next
\* request, which does not fit
C9_Witness ==
    /\ Done("rl")
    /\ \E k \in 1..Len(granted) : granted[k].kind = "waitlist"
    /\ Waitlist(cmd.a) # <<>>
    /\ Waitlist(cmd.a)[1][2] > RCB[cmd.a].state

\* ----------------------------------------------------------------- C10
\* C10: request acceptance. request(r, u) succeeds if and only if r is one of
\* 0..3, u >= 1, u plus the units of r the running process holds is at most
\* inventory(r), and the running process is not process 0; request(3, 4)
\* always fails, and so does every request made while process 0 runs.
C10_RequestAccepted ==
    Served("rq") =>
       /\ ret = 0 <=> /\ cmd.a \in {0, 1, 2, 3}
                      /\ cmd.b >= 1
                      /\ cmd.b + HeldBefore(WasRunning, cmd.a) <= InitRCB[cmd.a].inventory
                      /\ WasRunning # 0
       /\ cmd = Cmd("rq", 3, 4) => ret = -1
       /\ WasRunning = 0 => ret = -1

\* a request within the inventory, of a process other than process 0, has been
\* refused because, with the units the process holds, it goes over the inventory
C10_Witness ==
    /\ Refused("rq")
    /\ WasRunning # 0
    /\ cmd.a \in Resources /\ cmd.b >= 1
    /\ cmd.b <= InitRCB[cmd.a].inventory
    /\ HeldBefore(WasRunning, cmd.a) >= 1

\* ----------------------------------------------------------------- C11
\* C11: destroy validation. destroy(t) succeeds if and only if t is not 0 and
\* t is the running process or a member of the running process's children
\* set; it fails for process 0, for a child of a child and any other live
\* process that is not a child, for a free slot and for an id out of range.
C11_DestroyValidation ==
    Served("de") =>
       LET t == cmd.a IN
       /\ ret = 0 <=> /\ t # 0
                      /\ t = WasRunning \/ t \in old.PCB[WasRunning].children
       /\ t = 0 => ret = -1
       /\ t \notin Pids => ret = -1
       /\ (t \in Pids /\ ~WasOccupied(t)) => ret = -1
       /\ (t \in Pids /\ WasOccupied(t) /\ t # WasRunning
             /\ old.PCB[t].parent # WasRunning) => ret = -1

\* a destroy of a child of a child of the running process has been refused
C11_Witness ==
    /\ Refused("de")
    /\ cmd.a \in Pids /\ WasOccupied(cmd.a)
    /\ old.PCB[cmd.a].parent \in old.PCB[WasRunning].children

C13_Timeout ==
    Served("to") =>
       LET l == RunningLevel(old.RL)
           n == Len(old.RL[l])
       IN  /\ ret = 0 /\ ~raised
           /\ Len(RL[l]) = n
           /\ RL[l][n] = old.RL[l][1]
           /\ \A i \in 1..(n - 1) : RL[l][i] = old.RL[l][i + 1]
           /\ \A k \in Priorities \ {l} : RL[k] = old.RL[k]
           /\ PCB = old.PCB
           /\ RCB = old.RCB
           /\ n = 1 => RL = old.RL

\* a timeout has rotated a ready list of three or more processes
C13_Witness ==
    /\ Served("to")
    /\ Len(old.RL[RunningLevel(old.RL)]) >= 3
    /\ scheduler(RL) # WasRunning

\* ----------------------------------------------------------------- C14
\* C14: init is a reset. From any reachable state init() gives the one
\* starting configuration: process 0 Ready at priority 0 with no parent, no
\* children and no units, every other slot free, resources 0..3 with all of
\* their 1, 1, 2, 3 units available and empty wait queues, ready list 0 = <<0>>
\* and ready lists 1 and 2 empty; so init() after init() changes nothing.
C14_InitReset ==
    Served("in") =>
       /\ PCB[0] = [priority |-> 0, state |-> 1, parent |-> -1,
                    children |-> {}, resources |-> <<>>]
       /\ \A i \in Pids \ {0} :
             PCB[i] = [priority |-> -1, state |-> -1, parent |-> -1,
                       children |-> {}, resources |-> <<>>]
       /\ \A r \in Resources :
             RCB[r] = [inventory |-> <<1, 1, 2, 3>>[r + 1],
                       state |-> <<1, 1, 2, 3>>[r + 1], waitlist |-> <<>>]
       /\ RL = [l \in Priorities |-> IF l = 0 THEN <<0>> ELSE <<>>]
       /\ ~raised /\ ret = 0

\* init has been served on tables with a blocked process and units held
C14_Witness ==
    /\ Served("in")
    /\ \E p \in Pids : old.PCB[p].state = 0
    /\ \E r \in Resources : old.RCB[r].state < old.RCB[r].inventory
    /\ old.RL[0] # <<0>>

\* ----------------------------------------------------------------- C15
\* C15: in every reachable state some ready list is non-empty, so the running
\* process, the head of the highest-priority non-empty ready list, is defined
\* and is a live process whose status is Ready, and so was the one every
\* served command found.
C15_SomeoneReady ==
    /\ \E l \in Priorities : RL[l] # <<>>
    /\ scheduler(RL) \in Pids
    /\ Occupied(scheduler(RL))
    /\ PCB[scheduler(RL)].state = 1
    /\ pc = "returned" =>
          /\ WasRunning \in Pids
          /\ WasOccupied(WasRunning)
          /\ old.PCB[WasRunning].state = 1

\* a request has blocked the last Ready process other than process 0
C15_Witness ==
    /\ Done("rq")
    /\ Cardinality({p \in Pids : Occupied(p) /\ PCB[p].state = 0}) >= 2
    /\ \A p \in Pids \ {0} : Occupied(p) => PCB[p].state = 0
    /\ scheduler(RL) = 0

\* ----------------------------------------------------------------- C16
\* C16: no grantable waiter is left blocked. In every state between commands,
\* for every resource r, the wait queue of r is empty or the request at its
\* head asks for more units than available(r), also after a destroy that has
\* taken a blocked process from the front of a wait queue.
C16_NoGrantableWaiter ==
    pc = "idle" =>
       \A r \in Resources :
          Waitlist(r) = <<>> \/ Waitlist(r)[1][2] > RCB[r].state

\* ----------------------------------------------------------------- C17
\* C17: sibling-order independence of destroy. After a successful destroy(t)
\* the process table, the resource table (available units and wait queues) and
\* the three ready lists, contents and order, are the ones every order of
\* visiting the children of each destroyed process ends in.
C17_SiblingOrder ==
    Done("de") =>
       \A R \in destroy(Mgr(old.PCB, old.RCB, old.RL, FALSE), cmd.a) :
          R.PCB = PCB /\ R.RCB = RCB /\ R.RL = RL

\* ----------------------------------------------------------------- C18
\* C18: blocking request. When a valid request(r, u) asks for more than
\* available(r), the requester becomes Blocked, leaves its ready list,
\* <<pid, u>> goes to the tail of r's wait queue, available(r) and every held
\* count stay as they were, and the process running afterwards is another
\* one, of a priority no higher than the requester's.
C18_BlockingRequest ==
    (Done("rq") /\ cmd.b > old.RCB[cmd.a].state) =>
       LET r == cmd.a
           u == cmd.b
           p == WasRunning
           l == old.PCB[p].priority
       IN  /\ ~raised
           /\ PCB[p].state = 0
           /\ \A k \in Priorities : ~HasElem(RL[k], p)
           /\ old.RL[l] = <<p>> \o RL[l]
           /\ \A k \in Priorities \ {l} : RL[k] = old.RL[k]
           /\ Waitlist(r) = Append(old.RCB[r].waitlist, <<p, u>>)
           /\ \A x \in Resources : RCB[x].state = old.RCB[x].state
           /\ \A q \in Pids, x \in Resources : Held(q, x) = HeldBefore(q, x)
           /\ scheduler(RL) # p
           /\ PCB[scheduler(RL)].priority <= PCB[p].priority

\* a request has blocked its process behind another one in the wait queue,
\* and a process of a lower priority runs
C18_Witness ==
    /\ Done("rq")
    /\ cmd.b > old.RCB[cmd.a].state
    /\ old.RCB[cmd.a].waitlist # <<>>
    /\ PCB[scheduler(RL)].priority < PCB[WasRunning].priority

\* ----------------------------------------------------------------- C19
\* C19: immediate grant frame. When a valid request(r, u) asks for no more
\* than available(r), available(r) goes down by u, the requester's count of r
\* goes up by u, and nothing else changes: every ready list, every wait queue,
\* that of r included, every status and the running process stay the same.
C19_ImmediateGrantFrame ==
    (Done("rq") /\ cmd.b <= old.RCB[cmd.a].state) =>
       LET r == cmd.a
           u == cmd.b
           p == WasRunning
       IN  /\ ~raised
           /\ RCB[r].state = old.RCB[r].state - u
           /\ Held(p, r) = HeldBefore(p, r) + u
           /\ \A q \in Pids, x \in Resources :
                 <<q, x>> # <<p, r>> => Held(q, x) = HeldBefore(q, x)
           /\ \A x \in Resources \ {r} : RCB[x] = old.RCB[x]
           /\ \A x \in Resources : /\ Waitlist(x) = old.RCB[x].waitlist
                                   /\ RCB[x].inventory = old.RCB[x].inventory
           /\ RL = old.RL
           /\ \A q \in Pids \ {p} : PCB[q] = old.PCB[q]
           /\ PCB[p] = [old.PCB[p] EXCEPT !.resources = PCB[p].resources]
           /\ scheduler(RL) = p

\* a request of a process that already holds units of r has been granted at
\* once while another process waits for r
C19_Witness ==
    /\ Done("rq")
    /\ cmd.b <= old.RCB[cmd.a].state
    /\ old.RCB[cmd.a].waitlist # <<>>
    /\ HeldBefore(WasRunning, cmd.a) > 0

\* ----------------------------------------------------------------- C20
\* C20: per-process holding bound. In every reachable state, for every process
\* p and resource r, 0 <= held(p, r) <= inventory(r), and every entry <<p, u>>
\* of r's wait queue has u >= 1 and held(p, r) + u <= inventory(r), so a grant
\* from the wait queue never takes a process above the inventory.
C20_HoldingBound ==
    /\ \A p \in Pids, r \in Resources :
          0 <= Held(p, r) /\ Held(p, r) <= RCB[r].inventory
    /\ \A r \in Resources : \A i \in 1..Len(Waitlist(r)) :
          LET p == Waitlist(r)[i][1]
              u == Waitlist(r)[i][2]
          IN  /\ p \in Pids
              /\ u >= 1
              /\ Held(p, r) + u <= RCB[r].inventory
    /\ \A k \in 1..Len(granted) :
          Held(granted[k].pid, granted[k].resource)
             <= RCB[granted[k].resource].inventory

\* the wait queue has granted units to a process that held some, which now
\* holds the whole inventory
C20_Witness ==
    \E k \in 1..Len(granted) :
       LET e == granted[k] IN
       /\ e.kind = "waitlist"
       /\ HeldBefore(e.pid, e.resource) > 0
       /\ Held(e.pid, e.resource) = RCB[e.resource].inventory

\* ----------------------------------------------------------------- C21
\* the parent of q, its parent, and so on for n steps, in the process table
RECURSIVE Ancestor(_, _)
Ancestor(q, n) ==
    IF n = 0 \/ q \notin Pids THEN q ELSE Ancestor(PCB[q].parent, n - 1)

\* C21: process tree consistency. In every reachable state q is in
\* children(p) exactly when q is an occupied slot whose parent is p, every
\* occupied slot but 0 has an occupied parent, the parent relation has no
\* cycle and leads to process 0, and so no call of the recursive destroy
\* misses its target in the children set of its parent: it never fails.
C21_TreeConsistent ==
    /\ \A p, q \in Pids :
          q \in PCB[p].children <=> (Occupied(q) /\ PCB[q].parent = p)
    /\ \A p \in Pids : PCB[p].children \subseteq Pids
    /\ PCB[0].parent = -1
    /\ \A q \in Pids \ {0} :
          Occupied(q) => /\ PCB[q].parent \in Pids \ {q}
                         /\ Occupied(PCB[q].parent)
                         /\ \E n \in 1..(NumPCB - 1) : Ancestor(q, n) = 0
    /\ ~raised
    /\ Served("de") => ret = -1 \/ Len(freed) >= 1

\* a destroy has freed a process, its child and the child of that child
C21_Witness ==
    /\ Done("de")
    /\ \E i, j, k \in 1..Len(freed) :
          /\ freed[i].pcb.parent = freed[j].pid
          /\ freed[j].pcb.parent = freed[k].pid
    /\ \E p \in Pids \ {0} : Occupied(p)

WaitlistGrants(r) ==
    Cardinality({k \in 1..Len(granted) :
                    granted[k].kind = "waitlist" /\ granted[k].resource = r})

\* C23: every command returns. In a command the waitlist loop grants, for each
\* resource, at most as many requests as its wait queue had entries, and none
\* outside release and destroy; the recursive destroy frees the target and
\* each of its descendants once, and nothing else.
C23_CommandsReturn ==
    /\ pc \in {"idle", "returned"}
    /\ ~raised
    /\ pc = "returned" =>
          /\ \A r \in Resources : WaitlistGrants(r) <= Len(old.RCB[r].waitlist)
          /\ cmd.op \notin {"rl", "de"} => \A r \in Resources : WaitlistGrants(r) = 0
          /\ cmd.op # "de" => freed = <<>>
    /\ Done("de") =>
          /\ {freed[k].pid : k \in 1..Len(freed)} = Subtree(old.PCB, cmd.a)
          /\ Len(freed) = Cardinality(Subtree(old.PCB, cmd.a))

\* one command has granted two requests out of one wait queue
C23_Witness ==
    /\ pc = "returned"
    /\ \E r \in Resources : WaitlistGrants(r) >= 2 /\ Waitlist(r) = <<>>

====
